---- MODULE Spec2Model ----
(***************************************************************************)
(* Model of dp_config.py: the retry decorator retry_on_exception and the   *)
(* four GuaPage methods it wraps, the plugin provisioner                   *)
(* (check_and_download_plugin, download_plugin) and the launch             *)
(* configurator set_driver.                                                *)
(*                                                                         *)
(* Times are kept in units of 1/JitterDen second so that the jitter        *)
(* fraction jnum/JitterDen keeps everything an integer; random.uniform is  *)
(* a nondeterministic choice over the grid points of its closed interval.  *)
(***************************************************************************)
EXTENDS Integers, Sequences, FiniteSets, TLC

VARIABLES
    \* ---- retry_on_exception.wrapper ----
    method,          \* which wrapped function runs ("wrapper" = any function)
    retries,         \* decorator argument retries
    delay,           \* decorator argument delay (seconds)
    backoff,         \* decorator argument backoff
    jnum,            \* decorator argument jitter, as jnum / JitterDen
    rpc,             \* position inside wrapper
    attempt,         \* loop variable of `for attempt in range(retries)`
    last_exception,  \* local last_exception
    sleep_time,      \* the last value handed to time.sleep, with its parts
    calls,           \* number of invocations of func so far
    slept,           \* number of time.sleep calls so far
    outcome,         \* what wrapper handed to its caller
    func_result,     \* what func returned when it last returned ("None" if never)
    \* ---- the working directory, the network, the console ----
    dirs,            \* names for which os.path.exists(cwd/name) is true
    zips,            \* name -> "none" | "partial" | "complete" for <name>.zip
    logged,          \* records appended to logfile.log
    \* ---- check_and_download_plugin / download_plugin ----
    ppc,             \* position inside the provisioner
    plugin_name,     \* its argument
    pret,            \* its return value ("None" while running)
    prompts,         \* consent prompts issued by the current call
    requestsMade,    \* HTTP requests issued by the current call
    events,          \* steps of the current call, in order
    \* ---- set_driver ----
    dpc,             \* position inside set_driver
    is_windows,      \* os.name == 'nt'
    is_admin,        \* elevated privileges
    installed,       \* the browser executables that exist on disk
    supplied_path,   \* argument browser_path as the caller gave it ("" = not supplied)
    browser_path,    \* local browser_path: the argument, then the resolved path
    flags,           \* [cf_bypass, random_fingerprint, ua_patch]
    co,              \* the ChromiumOptions being built
    stage,           \* which of the three plugin blocks set_driver is in
    inputs,          \* arguments headless, proxy, user_agent
    provisioned,     \* plugin -> what the provisioner returned to set_driver
    session,         \* GuaPage(co) was constructed
    dout             \* "none" | "returned" | "FileNotFoundError"

rvars == <<method, retries, delay, backoff, jnum, rpc, attempt, last_exception,
           sleep_time, calls, slept, outcome, func_result>>
fvars == <<dirs, zips, logged>>
pvars == <<ppc, plugin_name, pret, prompts, requestsMade, events>>
dvars == <<dpc, is_windows, is_admin, installed, supplied_path, browser_path, flags, co, stage, inputs,
           provisioned, session, dout>>
vars == <<rvars, fvars, pvars, dvars>>

(***************************************************************************)
(* Bounds of the model                                                     *)
(***************************************************************************)
MaxRetries == 3
MaxDelay == 2
MaxBackoff == 2
MaxJitterNum == 2
MaxPrompts == 2
MaxInstalled == 2

(***************************************************************************)
(* Program constants                                                       *)
(***************************************************************************)
JitterDen == 10         \* jitter=0.1 is 1/10
DefaultJitterNum == 1
DefaultBackoff == 1
GuaDelay == 3
ClickRetries == 3
ActionsRetries == 5

(***************************************************************************)
(* Values                                                                  *)
(***************************************************************************)
\* An exception raised by func in attempt number id.  truthy is bool(e):
\* False only for an exception class that defines __bool__ or __len__.
FuncException(k, t) == [id |-> k, truthy |-> t]
None == [id |-> -1, truthy |-> FALSE]
RuntimeErrorExc == [id |-> -2, truthy |-> TRUE]
NoOutcome == [kind |-> "none", val |-> "None", exc |-> None]
NoSleep == [total |-> 0, jitter |-> 0, after |-> -1]

GuaPageMethods == {"click_with_retry", "input_with_retry",
                   "actions_input_with_retry", "actions_click_with_retry"}
Methods == {"wrapper"} \cup GuaPageMethods

\* the retries= argument of each decorated GuaPage method
MethodRetries(m) ==
    IF m \in {"click_with_retry", "input_with_retry"} THEN ClickRetries
    ELSE ActionsRetries

\* what func can return: the GuaPage methods return True on every path
FuncResults(m) == IF m \in GuaPageMethods THEN {"True"} ELSE {"True", "value"}

\* bool(e) of what func can raise: the driver's exceptions are plain
\* Exception subclasses; an arbitrary wrapped function may raise any class
FuncTruthiness(m) == IF m \in GuaPageMethods THEN {TRUE} ELSE BOOLEAN

(***************************************************************************)
(* retry_on_exception                                                      *)
(***************************************************************************)
RECURSIVE Pow(_, _)
Pow(b, k) == IF k = 0 THEN 1 ELSE b * Pow(b, k - 1)

\* off by one: one iteration too many
InRangeInclusive(a, n) == a <= n

\* range(retries) still has the index a
InRange(a, n) == a < n

\* sleeping after the final attempt too
NotPastLastAttempt(a, n) == a < n

\* `if attempt < retries - 1`
NotLastAttempt(a, n) == a < n - 1

\* linear instead of exponential backoff: delay * backoff * attempt
BaseSleepLinear(d, b, a) == d * b * a * JitterDen

\* `sleep_time = delay * (backoff ** attempt)`, in 1/JitterDen seconds
BaseSleep(d, b, a) == d * Pow(b, a) * JitterDen

\* jitter drawn on both sides' width: uniform(0, 2 * jitter * sleep_time)
JitterBoundDoubled(j, s) == (2 * j * s) \div JitterDen

\* upper end of `random.uniform(0, jitter * sleep_time)`, s in 1/JitterDen seconds
JitterBound(j, s) == (j * s) \div JitterDen

\* `if last_exception:`
Truthy(e) == e.truthy

InitRetry ==
    /\ method \in Methods
    /\ IF method = "wrapper"
       THEN /\ retries \in 0..MaxRetries
            /\ delay \in 0..MaxDelay
            /\ backoff \in 0..MaxBackoff
            /\ jnum \in 0..MaxJitterNum
       ELSE /\ retries = MethodRetries(method)
            /\ delay = GuaDelay
            /\ backoff = DefaultBackoff
            /\ jnum = DefaultJitterNum
    /\ rpc = "loop"
    /\ attempt = 0
    /\ last_exception = None
    /\ sleep_time = NoSleep
    /\ calls = 0
    /\ slept = 0
    /\ outcome = NoOutcome
    /\ func_result = "None"

\* line 134, func returns: `return func(*args, **kwargs)`
InvokeReturns ==
    /\ rpc = "loop"
    /\ InRange(attempt, retries)
    /\ \E v \in FuncResults(method) :
          /\ func_result' = v
          /\ outcome' = [kind |-> "return", val |-> v, exc |-> None]
    /\ calls' = calls + 1
    /\ rpc' = "done"
    /\ UNCHANGED <<method, retries, delay, backoff, jnum, attempt, last_exception,
                   sleep_time, slept>>
    /\ UNCHANGED <<fvars, pvars, dvars>>

\* lines 134-136, func raises: `except Exception as e: last_exception = e`
InvokeRaises ==
    /\ rpc = "loop"
    /\ InRange(attempt, retries)
    /\ \E t \in FuncTruthiness(method) :
          last_exception' = FuncException(attempt, t)
    /\ calls' = calls + 1
    /\ rpc' = "except"
    /\ UNCHANGED <<method, retries, delay, backoff, jnum, attempt, sleep_time,
                   slept, outcome, func_result>>
    /\ UNCHANGED <<fvars, pvars, dvars>>

\* lines 137-145: not the last attempt, compute the delay, log, sleep
SleepBeforeRetry ==
    /\ rpc = "except"
    /\ NotLastAttempt(attempt, retries)
    /\ LET base == BaseSleep(delay, backoff, attempt)
       IN  IF jnum # 0
           THEN \E r \in 0..JitterBound(jnum, base) :
                   sleep_time' = [total |-> base + r, jitter |-> r, after |-> attempt]
           ELSE sleep_time' = [total |-> base, jitter |-> 0, after |-> attempt]
    /\ logged' = logged + 2
    /\ slept' = slept + 1
    /\ attempt' = attempt + 1
    /\ rpc' = "loop"
    /\ UNCHANGED <<method, retries, delay, backoff, jnum, last_exception, calls,
                   outcome, func_result>>
    /\ UNCHANGED <<dirs, zips, pvars, dvars>>

\* lines 146-147: the last attempt failed, log the exhaustion
LogExhausted ==
    /\ rpc = "except"
    /\ ~NotLastAttempt(attempt, retries)
    /\ logged' = logged + 1
    /\ attempt' = attempt + 1
    /\ rpc' = "loop"
    /\ UNCHANGED <<method, retries, delay, backoff, jnum, last_exception,
                   sleep_time, calls, slept, outcome, func_result>>
    /\ UNCHANGED <<dirs, zips, pvars, dvars>>

\* lines 148-151: the loop is over
RaiseAfterLoop ==
    /\ rpc = "loop"
    /\ ~InRange(attempt, retries)
    /\ outcome' = [kind |-> "raise", val |-> "None",
                   exc |-> IF Truthy(last_exception) THEN last_exception
                           ELSE RuntimeErrorExc]
    /\ rpc' = "done"
    /\ UNCHANGED <<method, retries, delay, backoff, jnum, attempt, last_exception,
                   sleep_time, calls, slept, func_result>>
    /\ UNCHANGED <<fvars, pvars, dvars>>

(***************************************************************************)
(* The plugin provisioner                                                  *)
(***************************************************************************)
\* keys of PLUGIN_URLS
PLUGIN_URLS == {"cloudflare_ua_patch", "my-fingerprint-chrome", "turnstilePatch"}

\* the extension set_driver loads without provisioning it
GptRf == "gpt_rf"

PluginNames == PLUGIN_URLS \cup {GptRf}

NoZips == [n \in PluginNames |-> "none"]

\* testing for the archive instead of the directory
ArchivePathExists(name, d) == zips[name] # "none"

\* `os.path.exists(os.path.join(os.getcwd(), plugin_name))`
PluginPathExists(name, d) == name \in d

\* `plugin_name not in PLUGIN_URLS`
HasUrl(name) == name \in PLUGIN_URLS

\* state of <name>.zip after `open(zip_filename, 'wb')` and the chunk loop:
\* the file is created by open() whether or not the stream completes
ZipAfterWrite(z, name, streamed) ==
    [z EXCEPT ![name] = IF streamed THEN "complete" ELSE "partial"]

\* `os.remove(zip_filename)`
ZipAfterRemove(z, name) == [z EXCEPT ![name] = "none"]

\* a call of check_and_download_plugin(name) begins
EnterProvisioner(name) ==
    /\ ppc' = "check"
    /\ plugin_name' = name
    /\ pret' = "None"
    /\ prompts' = 0
    /\ requestsMade' = 0
    /\ events' = <<>>

\* a return statement of the provisioner: n log records were written on the way
ProvisionerReturns(value, n) ==
    /\ pret' = value
    /\ ppc' = "ret"
    /\ logged' = logged + n

\* lines 33-38: the directory exists
PluginPresent ==
    /\ ppc = "check"
    /\ PluginPathExists(plugin_name, dirs)
    /\ ProvisionerReturns("True", 1)
    /\ UNCHANGED <<dirs, zips, plugin_name, prompts, requestsMade, events>>
    /\ UNCHANGED <<rvars, dvars>>

\* lines 41-45: the directory is missing and no URL is configured
PluginUnknown ==
    /\ ppc = "check"
    /\ ~PluginPathExists(plugin_name, dirs)
    /\ ~HasUrl(plugin_name)
    /\ ProvisionerReturns("False", 2)
    /\ UNCHANGED <<dirs, zips, plugin_name, prompts, requestsMade, events>>
    /\ UNCHANGED <<rvars, dvars>>

\* lines 41-48: the directory is missing, go and ask
PluginMissing ==
    /\ ppc = "check"
    /\ ~PluginPathExists(plugin_name, dirs)
    /\ HasUrl(plugin_name)
    /\ logged' = logged + 1
    /\ ppc' = "prompt"
    /\ UNCHANGED <<dirs, zips, plugin_name, pret, prompts, requestsMade, events>>
    /\ UNCHANGED <<rvars, dvars>>

\* lines 49-51: the answer is y / yes
ConsentGranted ==
    /\ ppc = "prompt"
    /\ prompts' = prompts + 1
    /\ events' = Append(events, "consent")
    /\ ppc' = "get"
    /\ UNCHANGED <<fvars, plugin_name, pret, requestsMade>>
    /\ UNCHANGED <<rvars, dvars>>

\* lines 49, 52-54: the answer is n / no
ConsentRefused ==
    /\ ppc = "prompt"
    /\ prompts' = prompts + 1
    /\ ProvisionerReturns("False", 1)
    /\ UNCHANGED <<dirs, zips, plugin_name, requestsMade, events>>
    /\ UNCHANGED <<rvars, dvars>>

\* lines 49, 55-56: any other answer, ask again
ConsentUnrecognised ==
    /\ ppc = "prompt"
    /\ prompts < MaxPrompts
    /\ prompts' = prompts + 1
    /\ UNCHANGED <<fvars, ppc, plugin_name, pret, requestsMade, events>>
    /\ UNCHANGED <<rvars, dvars>>

\* lines 69-73: requests.get answers
GetResponds ==
    /\ ppc = "get"
    /\ requestsMade' = requestsMade + 1
    /\ events' = Append(events, "fetch")
    /\ logged' = logged + 1
    /\ ppc' = "status"
    /\ UNCHANGED <<dirs, zips, plugin_name, pret, prompts>>
    /\ UNCHANGED <<rvars, dvars>>

\* lines 69-73, 101-103: requests.get raises a RequestException
GetRaises ==
    /\ ppc = "get"
    /\ requestsMade' = requestsMade + 1
    /\ events' = Append(events, "fetch")
    /\ ProvisionerReturns("False", 2)
    /\ UNCHANGED <<dirs, zips, plugin_name, prompts>>
    /\ UNCHANGED <<rvars, dvars>>

\* line 74: the status is a success
StatusOk ==
    /\ ppc = "status"
    /\ ppc' = "write"
    /\ UNCHANGED <<fvars, plugin_name, pret, prompts, requestsMade, events>>
    /\ UNCHANGED <<rvars, dvars>>

\* lines 74, 101-103: raise_for_status raises HTTPError
StatusRaises ==
    /\ ppc = "status"
    /\ ProvisionerReturns("False", 1)
    /\ UNCHANGED <<dirs, zips, plugin_name, prompts, requestsMade, events>>
    /\ UNCHANGED <<rvars, dvars>>

\* lines 76-83: the archive is written in full
WriteCompletes ==
    /\ ppc = "write"
    /\ zips' = ZipAfterWrite(zips, plugin_name, TRUE)
    /\ events' = Append(events, "write")
    /\ logged' = logged + 1
    /\ ppc' = "extract"
    /\ UNCHANGED <<dirs, plugin_name, pret, prompts, requestsMade>>
    /\ UNCHANGED <<rvars, dvars>>

\* lines 79-81, 101-103: iter_content raises a RequestException mid-stream
WriteRaises ==
    /\ ppc = "write"
    /\ zips' = ZipAfterWrite(zips, plugin_name, FALSE)
    /\ events' = Append(events, "write")
    /\ ProvisionerReturns("False", 1)
    /\ UNCHANGED <<dirs, plugin_name, prompts, requestsMade>>
    /\ UNCHANGED <<rvars, dvars>>

\* lines 86-87: extractall succeeds; the archive may or may not hold a
\* top-level folder called plugin_name
ExtractCompletes ==
    /\ ppc = "extract"
    /\ \E holdsFolder \in BOOLEAN :
          dirs' = IF holdsFolder THEN dirs \cup {plugin_name} ELSE dirs
    /\ events' = Append(events, "extract")
    /\ ppc' = "remove"
    /\ UNCHANGED <<zips, logged, plugin_name, pret, prompts, requestsMade>>
    /\ UNCHANGED <<rvars, dvars>>

\* lines 86-87, 104-106: BadZipFile, on opening the archive or, after some
\* members were unpacked, on a member's CRC check
ExtractBadZip ==
    /\ ppc = "extract"
    /\ \E unpackedSome \in BOOLEAN :
          dirs' = IF unpackedSome THEN dirs \cup {plugin_name} ELSE dirs
    /\ events' = Append(events, "extract")
    /\ ProvisionerReturns("False", 1)
    /\ UNCHANGED <<zips, plugin_name, prompts, requestsMade>>
    /\ UNCHANGED <<rvars, dvars>>

\* lines 86-87, 107-109: extractall raises something else (OSError)
ExtractRaises ==
    /\ ppc = "extract"
    /\ events' = Append(events, "extract")
    /\ ProvisionerReturns("False", 1)
    /\ UNCHANGED <<dirs, zips, plugin_name, prompts, requestsMade>>
    /\ UNCHANGED <<rvars, dvars>>

\* line 90
RemoveArchive ==
    /\ ppc = "remove"
    /\ zips' = ZipAfterRemove(zips, plugin_name)
    /\ events' = Append(events, "delete")
    /\ ppc' = "verify"
    /\ UNCHANGED <<dirs, logged, plugin_name, pret, prompts, requestsMade>>
    /\ UNCHANGED <<rvars, dvars>>

\* lines 93-99
VerifyDirectory ==
    /\ ppc = "verify"
    /\ events' = Append(events, "verify")
    /\ ProvisionerReturns(IF PluginPathExists(plugin_name, dirs) THEN "True" ELSE "False", 1)
    /\ UNCHANGED <<dirs, zips, plugin_name, prompts, requestsMade>>
    /\ UNCHANGED <<rvars, dvars>>

(***************************************************************************)
(* set_driver                                                              *)
(***************************************************************************)
windows_paths ==
    << "C:\\Program Files\\Google\\Chrome\\Application\\chrome.exe",
       "C:\\Program Files (x86)\\Google\\Chrome\\Application\\chrome.exe",
       "C:\\Program Files\\Microsoft\\Edge\\Application\\msedge.exe" >>

linux_paths ==
    << "/usr/bin/google-chrome",
       "/usr/bin/chromium",
       "/usr/bin/chromium-browser",
       "/usr/bin/microsoft-edge",
       "/snap/bin/chromium",
       "/usr/lib/chromium/chromium",
       "/usr/lib/chromium-browser/chromium-browser" >>

\* `default_paths = windows_paths if is_windows else linux_paths`
default_paths(win) == IF win THEN windows_paths ELSE linux_paths

Range(q) == {q[i] : i \in 1..Len(q)}

\* a path the caller may hand in; it is on no candidate list
CustomPath == "/opt/custom/browser"

\* the loop without its `break`: the last candidate that exists wins
LastExisting(paths, fs) ==
    IF \E i \in 1..Len(paths) : paths[i] \in fs
    THEN LET i == CHOOSE i \in 1..Len(paths) :
                     /\ paths[i] \in fs
                     /\ \A j \in (i + 1)..Len(paths) : paths[j] \notin fs
         IN  paths[i]
    ELSE ""

\* the `for path in default_paths: if os.path.exists(path): ... break` loop:
\* the first candidate that exists, "" when none does
FirstExisting(paths, fs) ==
    IF \E i \in 1..Len(paths) : paths[i] \in fs
    THEN LET i == CHOOSE i \in 1..Len(paths) :
                     /\ paths[i] \in fs
                     /\ \A j \in 1..(i - 1) : paths[j] \notin fs
         IN  paths[i]
    ELSE ""

\* `if not browser_path`
NotSupplied(path) == path = ""

\* the three plugin blocks of lines 336-352, in order
StagePlugin == <<"turnstilePatch", "my-fingerprint-chrome", "cloudflare_ua_patch">>
StageFlag(f, i) ==
    IF i = 1 THEN f.cf_bypass ELSE IF i = 2 THEN f.random_fingerprint ELSE f.ua_patch
NumStages == Len(StagePlugin)

\* the provisioner's answer ignored
AlwaysAvailable(value) == TRUE

\* `if check_and_download_plugin(...)`
Available(value) == value = "True"

DefaultUserAgent == "Mozilla/5.0 (X11; Linux x86_64) AppleWebKit/537.36 (KHTML, like Gecko) Chrome/131.0.0.0 Safari/537.36"

\* lines 308-322: the command-line switches
Arguments(win, admin) ==
    (IF admin THEN {"--no-sandbox", "--disable-dev-shm-usage"} ELSE {})
    \cup (IF admin /\ ~win THEN {"--disable-gpu", "--disable-software-rasterizer"} ELSE {})
    \cup {"--hide-crash-restore-bubble", "--lang=en-US", "--accept-languages=en-US,en"}

NoOptions == [built |-> FALSE, browser_path |-> "", arguments |-> {}, proxy |-> "",
              headless |-> FALSE, user_agent |-> "", extensions |-> <<>>]

\* lines 288-292, 296: a path was supplied or a candidate exists
BrowserResolved ==
    /\ dpc = "resolve"
    /\ LET found == IF NotSupplied(browser_path)
                    THEN FirstExisting(default_paths(is_windows), installed)
                    ELSE browser_path
       IN  /\ ~NotSupplied(found)
           /\ browser_path' = found
    /\ dpc' = "options"
    /\ UNCHANGED <<is_windows, is_admin, installed, supplied_path, flags, co, stage, inputs,
                   provisioned, session, dout>>
    /\ UNCHANGED <<rvars, fvars, pvars>>

\* lines 288-294: nothing supplied, nothing found
BrowserNotFound ==
    /\ dpc = "resolve"
    /\ NotSupplied(browser_path)
    /\ NotSupplied(FirstExisting(default_paths(is_windows), installed))
    /\ dout' = "FileNotFoundError"
    /\ dpc' = "done"
    /\ UNCHANGED <<is_windows, is_admin, installed, supplied_path, browser_path, flags, co, stage,
                   inputs, provisioned, session>>
    /\ UNCHANGED <<rvars, fvars, pvars>>

\* lines 296-333
BuildOptions ==
    /\ dpc = "options"
    /\ co' = [built |-> TRUE,
              browser_path |-> browser_path,
              arguments |-> Arguments(is_windows, is_admin),
              proxy |-> inputs.proxy,
              headless |-> inputs.headless,
              user_agent |-> IF inputs.user_agent # "" THEN inputs.user_agent
                             ELSE DefaultUserAgent,
              extensions |-> <<>>]
    /\ stage' = 1
    /\ dpc' = "plugins"
    /\ UNCHANGED <<is_windows, is_admin, installed, supplied_path, browser_path, flags, inputs,
                   provisioned, session, dout>>
    /\ UNCHANGED <<rvars, fvars, pvars>>

\* `if cf_bypass:` / `if random_fingerprint:` / `if ua_patch:` is false
PluginNotRequested ==
    /\ dpc = "plugins"
    /\ stage <= NumStages
    /\ ~StageFlag(flags, stage)
    /\ stage' = stage + 1
    /\ UNCHANGED <<dpc, is_windows, is_admin, installed, supplied_path, browser_path, flags, co,
                   inputs, provisioned, session, dout>>
    /\ UNCHANGED <<rvars, fvars, pvars>>

\* the flag is true: call check_and_download_plugin
PluginRequested ==
    /\ dpc = "plugins"
    /\ stage <= NumStages
    /\ StageFlag(flags, stage)
    /\ EnterProvisioner(StagePlugin[stage])
    /\ provisioned' = [provisioned EXCEPT ![stage] = "pending"]
    /\ dpc' = "waiting"
    /\ UNCHANGED <<is_windows, is_admin, installed, supplied_path, browser_path, flags, co, stage,
                   inputs, session, dout>>
    /\ UNCHANGED <<rvars, fvars>>

\* the provisioner returned True: `co.add_extension(...)`
PluginAttached ==
    /\ dpc = "waiting"
    /\ ppc = "ret"
    /\ Available(pret)
    /\ co' = [co EXCEPT !.extensions = Append(@, StagePlugin[stage])]
    /\ provisioned' = [provisioned EXCEPT ![stage] = pret]
    /\ stage' = stage + 1
    /\ dpc' = "plugins"
    /\ ppc' = "idle"
    /\ UNCHANGED <<is_windows, is_admin, installed, supplied_path, browser_path, flags, inputs,
                   session, dout>>
    /\ UNCHANGED <<plugin_name, pret, prompts, requestsMade, events>>
    /\ UNCHANGED <<rvars, fvars>>

\* the provisioner returned False: log a warning and go on
PluginSkipped ==
    /\ dpc = "waiting"
    /\ ppc = "ret"
    /\ ~Available(pret)
    /\ logged' = logged + 1
    /\ provisioned' = [provisioned EXCEPT ![stage] = pret]
    /\ stage' = stage + 1
    /\ dpc' = "plugins"
    /\ ppc' = "idle"
    /\ UNCHANGED <<is_windows, is_admin, installed, supplied_path, browser_path, flags, co, inputs,
                   session, dout>>
    /\ UNCHANGED <<plugin_name, pret, prompts, requestsMade, events>>
    /\ UNCHANGED <<rvars, dirs, zips>>

\* lines 355-356
LoadGptRf ==
    /\ dpc = "plugins"
    /\ stage > NumStages
    /\ co' = IF PluginPathExists(GptRf, dirs)
             THEN [co EXCEPT !.extensions = Append(@, GptRf)]
             ELSE co
    /\ dpc' = "launch"
    /\ UNCHANGED <<is_windows, is_admin, installed, supplied_path, browser_path, flags, stage,
                   inputs, provisioned, session, dout>>
    /\ UNCHANGED <<rvars, fvars, pvars>>

\* lines 358-359
Launch ==
    /\ dpc = "launch"
    /\ session' = TRUE
    /\ dout' = "returned"
    /\ dpc' = "done"
    /\ UNCHANGED <<is_windows, is_admin, installed, supplied_path, browser_path, flags, co, stage,
                   inputs, provisioned>>
    /\ UNCHANGED <<rvars, fvars, pvars>>

(***************************************************************************)
(* Initial states and specifications                                       *)
(***************************************************************************)
AllFlags == [cf_bypass : BOOLEAN, random_fingerprint : BOOLEAN, ua_patch : BOOLEAN]
AllInputs == [headless : BOOLEAN, proxy : {"", "http://127.0.0.1:8080"},
              user_agent : {"", "custom-agent"}]
DefaultInputs == [headless |-> FALSE, proxy |-> "", user_agent |-> ""]
NothingProvisioned == [i \in 1..NumStages |-> "not requested"]

\* no retry-wrapped call is running
RetryIdle ==
    /\ method = "wrapper"
    /\ retries = 0 /\ delay = 0 /\ backoff = 0 /\ jnum = 0
    /\ rpc = "idle"
    /\ attempt = 0
    /\ last_exception = None
    /\ sleep_time = NoSleep
    /\ calls = 0 /\ slept = 0
    /\ outcome = NoOutcome
    /\ func_result = "None"

\* no provisioner call is running
ProvisionerIdle ==
    /\ ppc = "idle"
    /\ plugin_name = ""
    /\ pret = "None"
    /\ prompts = 0
    /\ requestsMade = 0
    /\ events = <<>>

\* set_driver has just been called with the given arguments
DriverCalled ==
    /\ dpc = "resolve"
    /\ co = NoOptions
    /\ stage = 0
    /\ provisioned = NothingProvisioned
    /\ session = FALSE
    /\ dout = "none"

\* a working directory with no archive in it and an empty log
FreshFiles ==
    /\ zips = NoZips
    /\ logged = 0

\* check_and_download_plugin called on its own, for any name and any
\* set of directories present
InitDirect ==
    /\ FreshFiles
    /\ dirs \in SUBSET PluginNames
    /\ plugin_name \in PluginNames
    /\ ppc = "check"
    /\ pret = "None" /\ prompts = 0 /\ requestsMade = 0 /\ events = <<>>
    /\ dpc = "off"
    /\ is_windows = FALSE /\ is_admin = FALSE
    /\ installed = {}
    /\ supplied_path = ""
    /\ browser_path = supplied_path
    /\ flags \in {[cf_bypass |-> FALSE, random_fingerprint |-> FALSE, ua_patch |-> FALSE]}
    /\ inputs = DefaultInputs
    /\ co = NoOptions /\ stage = 0 /\ provisioned = NothingProvisioned
    /\ session = FALSE /\ dout = "none"

\* set_driver on any platform, with any browsers installed (at most
\* MaxInstalled of the candidates) and any arguments, the three plugin
\* directories being in place
InitDriverPaths ==
    /\ FreshFiles
    /\ ProvisionerIdle
    /\ DriverCalled
    /\ dirs \in {PLUGIN_URLS, PluginNames}
    /\ is_windows \in BOOLEAN
    /\ is_admin \in BOOLEAN
    /\ installed \in {S \in SUBSET Range(default_paths(is_windows)) :
                         Cardinality(S) <= MaxInstalled}
    /\ supplied_path \in {"", CustomPath}
    /\ browser_path = supplied_path
    /\ flags \in AllFlags
    /\ inputs \in AllInputs

\* set_driver on one machine, with any flags and any set of plugin
\* directories present
InitDriverPlugins ==
    /\ FreshFiles
    /\ ProvisionerIdle
    /\ DriverCalled
    /\ dirs \in SUBSET PluginNames
    /\ is_windows = FALSE
    /\ is_admin = FALSE
    /\ installed = {linux_paths[1]}
    /\ supplied_path = ""
    /\ browser_path = supplied_path
    /\ flags \in AllFlags
    /\ inputs = DefaultInputs

Init ==
    /\ RetryIdle
    /\ \/ InitDirect
       \/ InitDriverPaths
       \/ InitDriverPlugins

Next ==
    \/ PluginPresent
    \/ PluginUnknown
    \/ PluginMissing
    \/ ConsentGranted
    \/ ConsentRefused
    \/ ConsentUnrecognised
    \/ GetResponds
    \/ GetRaises
    \/ StatusOk
    \/ StatusRaises
    \/ WriteCompletes
    \/ WriteRaises
    \/ ExtractCompletes
    \/ ExtractBadZip
    \/ ExtractRaises
    \/ RemoveArchive
    \/ VerifyDirectory
    \/ BrowserResolved
    \/ BrowserNotFound
    \/ BuildOptions
    \/ PluginNotRequested
    \/ PluginRequested
    \/ PluginAttached
    \/ PluginSkipped
    \/ LoadGptRf
    \/ Launch

Spec == Init /\ [][Next]_vars

\* a retry-wrapped call, nothing else going on
InitRetryOnly ==
    /\ InitRetry
    /\ FreshFiles
    /\ dirs = {}
    /\ ProvisionerIdle
    /\ dpc = "off"
    /\ is_windows = FALSE /\ is_admin = FALSE
    /\ installed = {}
    /\ supplied_path = ""
    /\ browser_path = supplied_path
    /\ flags \in {[cf_bypass |-> FALSE, random_fingerprint |-> FALSE, ua_patch |-> FALSE]}
    /\ inputs = DefaultInputs
    /\ co = NoOptions /\ stage = 0 /\ provisioned = NothingProvisioned
    /\ session = FALSE /\ dout = "none"

NextRetry ==
    \/ InvokeReturns
    \/ InvokeRaises
    \/ SleepBeforeRetry
    \/ LogExhausted
    \/ RaiseAfterLoop

SpecRetry == InitRetryOnly /\ [][NextRetry]_vars

(***************************************************************************)
(* Properties of the retry wrapper (checked under SpecRetry)               *)
(***************************************************************************)
\* every invocation of func so far has raised
AlwaysFails == func_result = "None"

\* C1: with retries = N >= 0 and an operation that raises on every
\* invocation, the operation is invoked exactly N times and only then
\* does the wrapper raise: never a raise before the N-th invocation,
\* never an (N+1)-th invocation, and a finished call has raised.
C1_ExactlyNAttempts ==
    AlwaysFails =>
        /\ calls <= retries
        /\ outcome.kind = "raise" => calls = retries
        /\ rpc = "done" => outcome.kind = "raise" /\ calls = retries

C1_Witness ==
    /\ method = "wrapper"
    /\ retries = MaxRetries
    /\ rpc = "done"
    /\ AlwaysFails
    /\ outcome.kind = "raise"
    /\ calls = MaxRetries

\* delay * backoff^k, in 1/JitterDen seconds
BackedOffDelay(k) == delay * Pow(backoff, k) * JitterDen

\* C2: the sleep after the failed attempt k (one that is followed by
\* another attempt) lies in [delay*backoff^k, delay*backoff^k*(1+jitter)],
\* and is exactly delay*backoff^k when jitter = 0.
C2_SleepInInterval ==
    sleep_time.after >= 0 =>
        LET k == sleep_time.after
        IN  /\ k < retries - 1
            /\ BackedOffDelay(k) <= sleep_time.total
            /\ sleep_time.total * JitterDen <= BackedOffDelay(k) * (JitterDen + jnum)
            /\ jnum = 0 => sleep_time.total = BackedOffDelay(k)

C2_Witness ==
    /\ sleep_time.after = 1
    /\ backoff = 2
    /\ jnum > 0
    /\ sleep_time.total > BackedOffDelay(1)
    /\ rpc = "loop"

\* C3 as stated: the wait is delay * backoff^attempt plus a jitter term
\* drawn from [0, jitter*delay], a term that does not grow with the
\* backoff factor or the attempt index.
C3_JitterBoundedByBaseDelay ==
    sleep_time.after >= 0 =>
        /\ sleep_time.total = BackedOffDelay(sleep_time.after) + sleep_time.jitter
        /\ 0 <= sleep_time.jitter
        /\ sleep_time.jitter <= jnum * delay

\* C3 as amended: the wait is delay * backoff^attempt plus a jitter term
\* drawn from [0, jitter * delay * backoff^attempt]: the jitter term is
\* bounded by the jitter fraction of the backed-off delay.
C3_JitterBoundedByBackedOffDelay ==
    sleep_time.after >= 0 =>
        /\ sleep_time.total = BackedOffDelay(sleep_time.after) + sleep_time.jitter
        /\ 0 <= sleep_time.jitter
        /\ sleep_time.jitter * JitterDen <= jnum * BackedOffDelay(sleep_time.after)

C3_Witness ==
    /\ sleep_time.after >= 1
    /\ backoff > 1
    /\ sleep_time.jitter > jnum * delay

\* C4: when every allowed attempt has failed, the caller gets the
\* exception raised by the final attempt, not an earlier one and not a
\* substitute; the four GuaPage methods make 3 resp. 5 attempts and
\* otherwise return True.
C4_LastFailurePropagates ==
    /\ (rpc = "done" /\ outcome.kind = "raise" /\ retries >= 1) =>
            /\ outcome.exc = last_exception
            /\ outcome.exc.id = retries - 1
    /\ (rpc = "done" /\ method \in GuaPageMethods) =>
            /\ retries = MethodRetries(method)
            /\ outcome.kind = "return" => outcome.val = "True"
            /\ outcome.kind = "raise" => calls = retries

\* C10: for N >= 1 the wrapper returns the result of the first
\* successful invocation and invokes the operation no further; the
\* operation is re-invoked only after a failure followed by a sleep, so
\* that sleeps = invocations - 1: no sleep before the first attempt, none
\* after a success, none after the final failed attempt.
C10_Step ==
    /\ calls' # calls =>
          /\ calls' = calls + 1
          /\ outcome.kind = "none"
          /\ slept = calls
    /\ slept' # slept =>
          /\ slept' = slept + 1
          /\ rpc = "except"
          /\ calls = slept + 1
          /\ attempt < retries - 1
    /\ (rpc' = "done" /\ retries >= 1) => slept' = calls' - 1
    /\ outcome'.kind = "return" => outcome'.val = func_result'
    /\ outcome.kind # "none" => outcome' = outcome

C10_SleepsBetweenAttempts == [][C10_Step]_vars

C10_Witness ==
    /\ rpc = "done"
    /\ outcome.kind = "return"
    /\ calls = 3
    /\ slept = 2

(***************************************************************************)
(* Properties of the provisioner and of set_driver (checked under Spec)    *)
(***************************************************************************)
\* the current provisioner call returned because the HTTP request, its
\* status check or the streaming of the body raised
DownloadFailed ==
    /\ ppc = "ret"
    /\ Len(events) >= 2
    /\ events[Len(events)] \in {"fetch", "write"}

\* C5: when the download fails (request, status check or streaming),
\* download_plugin returns False and no <plugin_name>.zip exists
\* afterwards.
C5_NoArchiveAfterFailedDownload ==
    DownloadFailed =>
        /\ pret = "False"
        /\ zips[plugin_name] = "none"

\* the provisioner is about to run its existence test on a directory that exists
PresentAtCheck == ppc = "check" /\ plugin_name \in dirs

\* C6 as stated: when the plugin directory exists the call returns True
\* at once, with no prompt, no network request, and no file created,
\* modified or deleted (the log file included).
C6_TouchesNoFileStep ==
    PresentAtCheck =>
        /\ ppc' = "ret" /\ pret' = "True"
        /\ prompts' = prompts
        /\ requestsMade' = requestsMade
        /\ events' = events
        /\ dirs' = dirs /\ zips' = zips
        /\ logged' = logged

C6_TouchesNoFile == [][C6_TouchesNoFileStep]_vars

\* C6 as amended: when the plugin directory exists the call returns True
\* at once, with no prompt and no network request; it creates or deletes
\* no file and modifies none but the log file, to which it appends one
\* record.
C6_TouchesOnlyLogStep ==
    PresentAtCheck =>
        /\ ppc' = "ret" /\ pret' = "True"
        /\ prompts' = prompts
        /\ requestsMade' = requestsMade
        /\ events' = events
        /\ dirs' = dirs /\ zips' = zips
        /\ logged' = logged + 1

C6_TouchesOnlyLog == [][C6_TouchesOnlyLogStep]_vars

C6_Witness ==
    /\ dpc = "off"
    /\ ppc = "ret"
    /\ pret = "True"
    /\ plugin_name \in dirs
    /\ prompts = 0 /\ requestsMade = 0 /\ events = <<>>
    /\ logged = 1

Attached(name) == name \in Range(co.extensions)

NoCandidateExists ==
    \A i \in 1..Len(default_paths(is_windows)) :
        default_paths(is_windows)[i] \notin installed

\* C8: set_driver raises FileNotFoundError, before any option is built,
\* any provisioner call made or any session created, exactly when no
\* browser_path is supplied and no candidate path exists; otherwise the
\* first existing candidate in list order is used, and a supplied path
\* is used without a look at the filesystem.
C8_BrowserPathResolution ==
    /\ dout = "FileNotFoundError" =>
          /\ supplied_path = "" /\ NoCandidateExists
          /\ ~co.built /\ co = NoOptions
          /\ ppc = "idle" /\ provisioned = NothingProvisioned /\ requestsMade = 0
          /\ ~session
    /\ (dpc \notin {"off", "resolve"} /\ supplied_path = "" /\ NoCandidateExists)
          => dout = "FileNotFoundError"
    /\ co.built =>
          IF supplied_path # ""
          THEN co.browser_path = supplied_path
          ELSE \E i \in 1..Len(default_paths(is_windows)) :
                  /\ co.browser_path = default_paths(is_windows)[i]
                  /\ co.browser_path \in installed
                  /\ \A j \in 1..(i - 1) : default_paths(is_windows)[j] \notin installed

C8_Witness ==
    /\ co.built
    /\ supplied_path = ""
    /\ Cardinality(installed) = 2
    /\ default_paths(is_windows)[1] \notin installed
    /\ co.browser_path \in installed

ProvisioningOrder == <<"consent", "fetch", "write", "extract", "delete", "verify">>

\* C9: for a missing directory, a fetch happens only after an
\* affirmative answer (a refusal returns False with no fetch, a name with
\* no URL returns False with no prompt); the steps run in the order
\* write, extract, delete, verify; the result is True iff the directory
\* exists after extraction, and the archive is deleted whenever
\* extraction was attempted.
C9_OrderedProvisioning ==
    /\ Len(events) <= Len(ProvisioningOrder)
    /\ \A i \in 1..Len(events) : events[i] = ProvisioningOrder[i]
    /\ requestsMade > 0 => (Len(events) >= 2 /\ events[1] = "consent")
    /\ (ppc = "ret" /\ events = <<>> /\ prompts > 0) => (pret = "False" /\ requestsMade = 0)
    /\ (ppc = "ret" /\ plugin_name \notin PLUGIN_URLS /\ plugin_name \notin dirs)
          => (pret = "False" /\ prompts = 0 /\ requestsMade = 0)
    /\ (ppc = "ret" /\ Len(events) >= 4) =>
          /\ pret = "True" <=> plugin_name \in dirs
          /\ zips[plugin_name] = "none"

====
